---- MODULE Spec2Model ----
(***************************************************************************)
(* Model of invenio_cli/commands/requirements.py (RequirementsCommands)    *)
(* and invenio_cli/commands/install.py (InstallCommands).                  *)
(*                                                                         *)
(* Python strings are sequences of one-character strings; the characters   *)
(* of the model are ASCII.  A Python call                                  *)
(* either returns a value or raises; a raised exception is the record      *)
(* Raised(<exception class>).                                              *)
(***************************************************************************)
EXTENDS Integers, Sequences, FiniteSets, TLC

VARIABLES
    version,      \* _check_version: the version string handed in
    req,          \* _check_version: [binary, major, minor, patch, exact]
    response,     \* _check_version: what the call produced (NotCalled before)
    text,         \* _version_from_string: the string handed in
    extracted,    \* _version_from_string: what the call produced
    ran,          \* per-tool check: [tool, outcome of run_cmd, req]
    tool_response,\* per-tool check: what the call produced
    call,         \* the step-list builder called last, with its inputs
    steps,        \* the step list it returned
    results,      \* the steps executed so far, with their results
    status,       \* the run: "ready", "succeeded" or "failed"
    failure       \* the message the run reported when it failed

vars == <<version, req, response, text, extracted, ran, tool_response,
          call, steps, results, status, failure>>

checkVars == <<version, req, response>>
extractVars == <<text, extracted>>
toolVars == <<ran, tool_response>>
stepVars == <<call, steps, results, status, failure>>

----------------------------------------------------------------------------
(* Bounds of the model.                                                    *)

\* longest version string handed to _check_version
MaxVerLen == 6
\* longest text handed to _version_from_string
MaxTextLen == 6

\* characters of the version strings: two digits, the separator, a letter
\* and a blank
VersionChars == {"1", "2", ".", "v", " "}
\* characters of the scanned texts
TextChars == {"1", "2", ".", "v"}
\* required versions the checks are asked for (-1 is the "unset" default)
ReqMajors == {1, 2}
ReqMinors == {-1, 1, 2}
ReqPatches == {-1, 1, 2}

----------------------------------------------------------------------------
(* Python values.                                                          *)

None == [kind |-> "None"]
NotCalled == [kind |-> "NotCalled"]
Raised(exc) == [kind |-> "Raised", exception |-> exc]
IsRaised(v) == v.kind = "Raised"
Returned(v) == [kind |-> "Returned", value |-> v]

Digits == {"0", "1", "2", "3", "4", "5", "6", "7", "8", "9"}

DigitValue(c) ==
    CASE c = "0" -> 0 [] c = "1" -> 1 [] c = "2" -> 2 [] c = "3" -> 3
      [] c = "4" -> 4 [] c = "5" -> 5 [] c = "6" -> 6 [] c = "7" -> 7
      [] c = "8" -> 8 [] c = "9" -> 9

\* all strings over chars of length at most n
RECURSIVE StringsUpTo(_, _)
StringsUpTo(chars, n) ==
    IF n = 0 THEN {<<>>}
    ELSE LET shorter == StringsUpTo(chars, n - 1)
         IN  shorter \cup {Append(s, c) : s \in shorter, c \in chars}

\* str.split(sep) for a one-character separator: the list of the parts
\* between the separators, empty parts included; never an empty list.
RECURSIVE SplitFrom(_, _, _, _)
SplitFrom(s, sep, i, cur) ==
    IF i > Len(s) THEN <<cur>>
    ELSE IF s[i] = sep THEN <<cur>> \o SplitFrom(s, sep, i + 1, <<>>)
    ELSE SplitFrom(s, sep, i + 1, Append(cur, s[i]))

Split(s, sep) == SplitFrom(s, sep, 1, <<>>)

\* the value of a non-empty digit string, most significant digit first
RECURSIVE DecimalValue(_)
DecimalValue(s) ==
    IF Len(s) = 0 THEN 0
    ELSE 10 * DecimalValue(SubSeq(s, 1, Len(s) - 1)) + DigitValue(s[Len(s)])

\* the ASCII characters str.isspace() accepts: space, \t, \n, \r, \f, the
\* vertical tab and the separators U+001C to U+001F
Whitespace ==
    {" ", "\t", "\n", "\r", "\f", "", "", "", "", ""}

RECURSIVE LStripOf(_, _)
LStripOf(s, chars) ==
    IF Len(s) > 0 /\ s[1] \in chars THEN LStripOf(Tail(s), chars) ELSE s

RECURSIVE RStripOf(_, _)
RStripOf(s, chars) ==
    IF Len(s) > 0 /\ s[Len(s)] \in chars
    THEN RStripOf(SubSeq(s, 1, Len(s) - 1), chars)
    ELSE s

\* str.lstrip(), str.rstrip(), str.strip(): the string without its leading
\* and trailing whitespace
LStrip(s) == LStripOf(s, Whitespace)
RStrip(s) == RStripOf(s, Whitespace)
Strip(s) == RStrip(LStrip(s))

\* int(s) on a string: whitespace around the literal is dropped (the
\* separators U+001C to U+001F are not whitespace to int), then comes an
\* optional sign, then digits with single underscores between them.
IntWhitespace == {" ", "\t", "\n", "\r", "\f", ""}
IntLiteral(s) == RStripOf(LStripOf(s, IntWhitespace), IntWhitespace)
IntNegative(s) == Len(IntLiteral(s)) > 0 /\ IntLiteral(s)[1] = "-"
IntBody(s) ==
    IF Len(IntLiteral(s)) > 0 /\ IntLiteral(s)[1] \in {"+", "-"}
    THEN Tail(IntLiteral(s))
    ELSE IntLiteral(s)
IsDigit(c) == c \in Digits
IsIntBody(u) ==
    /\ Len(u) > 0
    /\ \A i \in 1..Len(u) : u[i] \in Digits \cup {"_"}
    /\ u[1] \in Digits /\ u[Len(u)] \in Digits
    /\ \A i \in 1..(Len(u) - 1) : ~(u[i] = "_" /\ u[i + 1] = "_")

\* the interpreter's default limit on the digits of a decimal literal
\* (sys.get_int_max_str_digits()): leading zeros count, the sign, the
\* underscores and the surrounding blanks do not
IntMaxStrDigits == 4300
IntDigits(s) == SelectSeq(IntBody(s), IsDigit)

\* anything that is not such a literal, and a literal of more digits than the
\* limit, raises ValueError
PyIntRaises(s) ==
    \/ ~IsIntBody(IntBody(s))
    \/ Len(IntDigits(s)) > IntMaxStrDigits
PyInt(s) ==
    IF IntNegative(s) THEN 0 - DecimalValue(IntDigits(s))
    ELSE DecimalValue(IntDigits(s))

----------------------------------------------------------------------------
(* RequirementsCommands._check_version                                     *)

ProcessResponse(output, error, status_code) ==
    [kind |-> "ProcessResponse", output |-> output, error |-> error,
     status_code |-> status_code]

\* lines 63-67: the expected version rendered from the fields that are set
ExpectedVersion(major, minor, patch) ==
    IF minor > -1
    THEN IF patch > -1 THEN <<major, minor, patch>> ELSE <<major, minor>>
    ELSE <<major>>

\* a variant of VersionOkExact that treats an unset field as a value to match
VersionOkExactNoWildcard(parts, major, minor, patch) ==
    parts[1] = major /\ parts[2] = minor /\ parts[3] = patch

\* lines 44-56: the verdict on three integers
VersionOkExact(parts, major, minor, patch) ==
    LET major_match == parts[1] = major
        minor_match == minor = -1 \/ parts[2] = minor
        patch_match == patch = -1 \/ parts[3] = patch
    IN  major_match /\ minor_match /\ patch_match

\* a variant of VersionOkMinimum that compares field by field
VersionOkMinimumFieldwise(parts, major, minor, patch) ==
    parts[1] >= major /\ parts[2] >= minor /\ parts[3] >= patch

VersionOkMinimum(parts, major, minor, patch) ==
    LET major_higher == parts[1] > major
        major_ok == parts[1] >= major
        minor_higher == major_ok /\ parts[2] > minor
        minor_ok == major_ok /\ parts[2] >= minor
        patch_ok == minor_ok /\ parts[3] >= patch
    IN  major_higher \/ minor_higher \/ patch_ok

check_version(binary, ver, major, minor, patch, exact) ==
    LET strs == Split(ver, ".")
    IN  IF Len(strs) # 3
        THEN ProcessResponse(None,
                 [msg |-> "incorrect version format or not found",
                  binary |-> binary], 1)
        ELSE IF \E i \in 1..3 : PyIntRaises(strs[i])
        THEN Raised("ValueError")
        ELSE LET parts == [i \in 1..3 |-> PyInt(strs[i])]
                 version_ok ==
                     IF exact THEN VersionOkExact(parts, major, minor, patch)
                     ELSE VersionOkMinimum(parts, major, minor, patch)
             IN  IF version_ok
                 THEN ProcessResponse(
                          [msg |-> "version OK", binary |-> binary,
                           got |-> ver], None, 0)
                 ELSE ProcessResponse(None,
                          [msg |-> "wrong version", binary |-> binary,
                           got |-> parts,
                           expected |-> ExpectedVersion(major, minor, patch)],
                          1)

----------------------------------------------------------------------------
(* RequirementsCommands._version_from_string                               *)

\* [0-9]* from position i: the position after the longest run of digits.
\* The run is always taken whole: the pattern continues with "\.", which a
\* digit given back by backtracking could not match.
RECURSIVE DigitRunEnd(_, _)
DigitRunEnd(s, i) ==
    IF i <= Len(s) /\ s[i] \in Digits THEN DigitRunEnd(s, i + 1) ELSE i

\* [0-9]*\.[0-9]*\.[0-9]* anchored at position i: the position after the
\* match, or 0 when the pattern does not match there.
MatchEndAt(s, i) ==
    LET j == DigitRunEnd(s, i)
    IN  IF j <= Len(s) /\ s[j] = "."
        THEN LET k == DigitRunEnd(s, j + 1)
             IN  IF k <= Len(s) /\ s[k] = "."
                 THEN DigitRunEnd(s, k + 1)
                 ELSE 0
        ELSE 0

\* re.search: the match at the leftmost position that has one, else None
re_search(s) ==
    LET starts == {i \in 1..(Len(s) + 1) : MatchEndAt(s, i) # 0}
    IN  IF starts = {} THEN None
        ELSE LET i == CHOOSE a \in starts : \A b \in starts : a <= b
             IN  Returned(SubSeq(s, i, MatchEndAt(s, i) - 1))

\* line 29: groups.group(0); None has no attribute "group"
version_from_string(string) ==
    LET groups == re_search(string)
    IN  IF groups = None THEN Raised("AttributeError") ELSE groups

----------------------------------------------------------------------------
(* What the external commands print (the output of run_cmd), as strings.   *)

\* 'v14.4.0\n'
OutNode ==
    <<"v", "1", "4", ".", "4", ".", "0", "\n">>
\* '6.14.13\n'
OutNpm ==
    <<"6", ".", "1", "4", ".", "1", "3", "\n">>
\* 'git version 2.36.1\n'
OutGit ==
    <<"g", "i", "t", " ", "v", "e", "r", "s", "i", "o", "n", " ", "2", ".",
      "3", "6", ".", "1", "\n">>
\* 'Docker Compose version v2.17.3\n'
OutCompose ==
    <<"D", "o", "c", "k", "e", "r", " ", "C", "o", "m", "p", "o", "s", "e",
      " ", "v", "e", "r", "s", "i", "o", "n", " ", "v", "2", ".", "1", "7",
      ".", "3", "\n">>
\* 'ImageMagick, version 7.0.11-13\n'
OutImageMagick ==
    <<"I", "m", "a", "g", "e", "M", "a", "g", "i", "c", "k", ",", " ", "v",
      "e", "r", "s", "i", "o", "n", " ", "7", ".", "0", ".", "1", "1", "-",
      "1", "3", "\n">>
\* 'pipenv, version 2020.11.15\n'
OutPipenv ==
    <<"p", "i", "p", "e", "n", "v", ",", " ", "v", "e", "r", "s", "i", "o",
      "n", " ", "2", "0", "2", "0", ".", "1", "1", ".", "1", "5", "\n">>
\* 'otherpkg, version 9.0.0'
OutOtherPkg ==
    <<"o", "t", "h", "e", "r", "p", "k", "g", ",", " ", "v", "e", "r", "s",
      "i", "o", "n", " ", "9", ".", "0", ".", "0">>
\* 'pipenv'
OutPipenvBare ==
    <<"p", "i", "p", "e", "n", "v">>
\* 'pipenv, version unknown'
OutPipenvNoVersion ==
    <<"p", "i", "p", "e", "n", "v", ",", " ", "v", "e", "r", "s", "i", "o",
      "n", " ", "u", "n", "k", "n", "o", "w", "n">>
\* ''
OutEmpty ==
    <<>>
\* 'git 2.36\n'
OutTwoParts ==
    <<"g", "i", "t", " ", "2", ".", "3", "6", "\n">>
\* 'v1..2\n'
OutEmptyPart ==
    <<"v", "1", ".", ".", "2", "\n">>
\* '{"Client":{"Version":"24.0.7"}}\n'
OutDockerJson ==
    <<"{", "\"", "C", "l", "i", "e", "n", "t", "\"", ":", "{", "\"", "V",
      "e", "r", "s", "i", "o", "n", "\"", ":", "\"", "2", "4", ".", "0",
      ".", "7", "\"", "}", "}", "\n">>
\* '{"Client":{}}'
OutDockerNoVersion ==
    <<"{", "\"", "C", "l", "i", "e", "n", "t", "\"", ":", "{", "}", "}">>
\* '{}'
OutDockerNoClient ==
    <<"{", "}">>
\* '{"Client":{"Version":"dev"}}'
OutDockerBadVersion ==
    <<"{", "\"", "C", "l", "i", "e", "n", "t", "\"", ":", "{", "\"", "V",
      "e", "r", "s", "i", "o", "n", "\"", ":", "\"", "d", "e", "v", "\"",
      "}", "}">>

\* '\fpipenv, version 2020.11.15\n'
OutPipenvFormFeed ==
    <<"\f", "p", "i", "p", "e", "n", "v", ",", " ", "v", "e", "r", "s", "i",
      "o", "n", " ", "2", "0", "2", "0", ".", "1", "1", ".", "1", "5", "\n">>
ToolOutputs ==
    {OutPipenvFormFeed, OutNode, OutNpm, OutGit, OutCompose, OutImageMagick, OutPipenv,
     OutOtherPkg, OutPipenvBare, OutPipenvNoVersion, OutEmpty, OutTwoParts,
     OutEmptyPart, OutDockerJson, OutDockerNoVersion, OutDockerNoClient,
     OutDockerBadVersion}

----------------------------------------------------------------------------
(* Python helpers used by the per-tool checks.                             *)

DigitChar(d) ==
    CASE d = 0 -> "0" [] d = 1 -> "1" [] d = 2 -> "2" [] d = 3 -> "3"
      [] d = 4 -> "4" [] d = 5 -> "5" [] d = 6 -> "6" [] d = 7 -> "7"
      [] d = 8 -> "8" [] d = 9 -> "9"

\* "{}".format(n) for an integer n >= 0: its decimal digits
RECURSIVE PyStr(_)
PyStr(n) ==
    IF n < 10 THEN <<DigitChar(n)>>
    ELSE Append(PyStr(n \div 10), DigitChar(n % 10))

\* a JSON object is a function from its keys; obj[key] raises KeyError for
\* a key it does not have
EmptyObject == [k \in {} |-> None]
Subscript(obj, key) ==
    IF key \in DOMAIN obj THEN Returned(obj[key]) ELSE Raised("KeyError")

\* json.loads on the outputs of this model: the three JSON documents parse
\* to their objects, every other output of ToolOutputs is not JSON once
\* stripped and raises JSONDecodeError.
JsonLoads(s) ==
    IF s = Strip(OutDockerJson)
    THEN Returned([k \in {"Client"} |->
                      [v \in {"Version"} |-> <<"2", "4", ".", "0", ".", "7">>]])
    ELSE IF s = Strip(OutDockerBadVersion)
    THEN Returned([k \in {"Client"} |->
                      [v \in {"Version"} |-> <<"d", "e", "v">>]])
    ELSE IF s = Strip(OutDockerNoVersion)
    THEN Returned([k \in {"Client"} |-> EmptyObject])
    ELSE IF s = Strip(OutDockerNoClient)
    THEN Returned(EmptyObject)
    ELSE Raised("JSONDecodeError")

----------------------------------------------------------------------------
(* The per-tool checks.  Each takes the outcome of its run_cmd call: a     *)
(* ProcessResponse, or Raised(..) when the command could not be spawned.   *)

NotFound(tool, got) ==
    ProcessResponse(None, [msg |-> "not found", binary |-> tool, got |-> got],
                    1)

\* the body of a try block once the version text is at hand:
\*   version = cls._version_from_string(<text>)
\*   return cls._check_version(<tool>, version, major, minor, patch, exact)
\* with the except clause that turns an exception into "<tool> not found"
ExtractAndCheck(tool, string, major, minor, patch, exact) ==
    LET ver == version_from_string(string)
    IN  IF IsRaised(ver) THEN NotFound(tool, ver.exception)
        ELSE LET result == check_version(tool, ver.value, major, minor,
                                         patch, exact)
             IN  IF IsRaised(result) THEN NotFound(tool, result.exception)
                 ELSE result

\* try: run_cmd; extract from result.output.strip(); check
\* except Exception as err: "<tool> not found. Got {err}."
RunAndCheck(tool, outcome, major, minor, patch, exact) ==
    IF IsRaised(outcome) THEN NotFound(tool, outcome.exception)
    ELSE ExtractAndCheck(tool, Strip(outcome.output), major, minor, patch,
                         exact)

check_node_version(outcome, major, minor, patch, exact) ==
    RunAndCheck("Node", outcome, major, minor, patch, exact)

check_npm_version(outcome, major, minor, patch, exact) ==
    RunAndCheck("NPM", outcome, major, minor, patch, exact)

\* no run_cmd and no try: the version is formatted from sys.version_info
check_python_version(version_info, major, minor, patch, exact) ==
    LET ver == PyStr(version_info[1]) \o <<".">> \o PyStr(version_info[2])
                 \o <<".">> \o PyStr(version_info[3])
    IN  check_version("Python", ver, major, minor, patch, exact)

check_docker_version(outcome, major, minor, patch, exact) ==
    IF IsRaised(outcome) THEN NotFound("Docker", outcome.exception)
    ELSE LET result_json == JsonLoads(Strip(outcome.output))
         IN  IF IsRaised(result_json)
             THEN NotFound("Docker", result_json.exception)
             ELSE LET client == Subscript(result_json.value, "Client")
                  IN  IF IsRaised(client)
                      THEN NotFound("Docker", client.exception)
                      ELSE LET v == Subscript(client.value, "Version")
                           IN  IF IsRaised(v)
                               THEN NotFound("Docker", v.exception)
                               ELSE ExtractAndCheck("Docker", v.value, major,
                                                    minor, patch, exact)

\* line 128 builds the DockerHelper before the try: helper is what the
\* constructor gave, and an exception of it leaves the function
check_docker_compose_version(helper, outcome, major, minor, patch, exact) ==
    IF IsRaised(helper) THEN helper
    ELSE RunAndCheck("Docker Compose", outcome, major, minor, patch, exact)

check_imagemagick_version(outcome, major, minor, patch, exact) ==
    RunAndCheck("ImageMagick", outcome, major, minor, patch, exact)

check_git_version(outcome, major, minor, patch, exact) ==
    RunAndCheck("git", outcome, major, minor, patch, exact)

PipenvName == <<"p", "i", "p", "e", "n", "v">>

\* lines 171-192.  The except clause formats result.error: when run_cmd
\* itself raised, result was never bound and the handler raises
\* UnboundLocalError.
check_pipenv_installed(outcome) ==
    IF IsRaised(outcome) THEN Raised("UnboundLocalError")
    ELSE LET parts == Split(Strip(outcome.output), ",")
         IN  IF parts[1] # PipenvName
             THEN NotFound("Pipenv", parts[1])
             ELSE IF Len(parts) < 2
             THEN NotFound("Pipenv", outcome.error)       \* IndexError
             ELSE LET ver == version_from_string(parts[2])
                  IN  IF IsRaised(ver)
                      THEN NotFound("Pipenv", outcome.error)
                      ELSE ProcessResponse(
                               [msg |-> "Pipenv OK", got |-> ver.value],
                               None, 0)

----------------------------------------------------------------------------
(* Steps and the step-list builders.                                       *)

\* FunctionStep(func, args, message); args is the mapping of the keyword
\* arguments the step passes to func
FunctionStep(func, args, message) ==
    [func |-> func, args |-> args, message |-> message]

NoArgs == [k \in {} |-> None]

\* Python's True and False where a value may also be a string
PyBool(b) == IF b THEN "True" ELSE "False"

\* a variant of check_dev with the first threshold off by one
check_dev_strict_threshold(rdm) ==
    LET node_version == IF rdm > 12 THEN 18 ELSE IF rdm >= 11 THEN 16 ELSE 14
        npm_version == IF rdm > 12 THEN 10 ELSE IF rdm >= 11 THEN 7 ELSE 6
    IN  <<FunctionStep("check_node_version", [major |-> node_version],
                       "Checking Node version..."),
          FunctionStep("check_npm_version", [major |-> npm_version],
                       "Checking NPM version..."),
          FunctionStep("check_imagemagick_version",
                       [major |-> 0, minor |-> 0],
                       "Checking ImageMagick version..."),
          FunctionStep("check_git_version", [major |-> 0, minor |-> 0],
                       "Checking git version...")>>

\* RequirementsCommands.check_dev; rdm is rdm_version()[0]
check_dev(rdm) ==
    LET node_version == IF rdm >= 12 THEN 18 ELSE IF rdm >= 11 THEN 16 ELSE 14
        npm_version == IF rdm >= 12 THEN 10 ELSE IF rdm >= 11 THEN 7 ELSE 6
    IN  <<FunctionStep("check_node_version", [major |-> node_version],
                       "Checking Node version..."),
          FunctionStep("check_npm_version", [major |-> npm_version],
                       "Checking NPM version..."),
          FunctionStep("check_imagemagick_version",
                       [major |-> 0, minor |-> 0],
                       "Checking ImageMagick version..."),
          FunctionStep("check_git_version", [major |-> 0, minor |-> 0],
                       "Checking git version...")>>

\* RequirementsCommands.check
check(development, rdm) ==
    LET base ==
            <<FunctionStep("check_python_version", [major |-> 3, minor |-> 9],
                           "Checking Python version..."),
              FunctionStep("check_pipenv_installed", NoArgs,
                           "Checking Pipenv is installed..."),
              FunctionStep("check_docker_version", [major |-> 0, minor |-> 0],
                           "Checking Docker version..."),
              FunctionStep("check_docker_compose_version",
                           [major |-> 1, minor |-> 17],
                           "Checking Docker Compose version...")>>
    IN  IF development THEN base \o check_dev(rdm) ELSE base

\* PackagesCommands.lock(pre, dev) and .install_locked_dependencies(pre,
\* dev): the sub-sequences install_py_dependencies is handed, one step each
packages_lock(pre, dev) ==
    <<FunctionStep("lock", [pre |-> pre, dev |-> dev],
                   "Locking python dependencies...")>>

packages_install_locked_dependencies(pre, dev) ==
    <<FunctionStep("install_locked_dependencies", [pre |-> pre, dev |-> dev],
                   "Installing python dependencies...")>>

\* InstallCommands.install_py_dependencies; is_locked is the status_code of
\* packages_commands.is_locked()
install_py_dependencies(pre, dev, is_locked) ==
    (IF is_locked > 0 THEN packages_lock(pre, dev) ELSE <<>>)
        \o packages_install_locked_dependencies(pre, dev)

SymlinkPaths == <<"invenio.cfg", "templates", "app_data">>

\* InstallCommands.symlink
symlink ==
    <<FunctionStep("update_instance_path", NoArgs,
                   "Updating instance path...")>>
        \o [i \in 1..Len(SymlinkPaths) |->
               FunctionStep("_symlink_project_file_or_folder",
                            [target |-> SymlinkPaths[i]],
                            <<"Symlinking", SymlinkPaths[i]>>)]

\* a variant of install_assets that builds no step unless debug is set
install_assets_only_debug(debug) ==
    IF debug \in {"True", "development"}
    THEN <<FunctionStep("update_statics_and_assets",
                        [force |-> "True", debug |-> debug],
                        "Updating statics and assets...")>>
    ELSE <<>>

\* InstallCommands.install_assets
install_assets(debug) ==
    <<FunctionStep("update_statics_and_assets",
                   [force |-> "True", debug |-> debug],
                   "Updating statics and assets...")>>

\* a variant of install that builds the assets before the symlinks
install_assets_first(pre, dev, debug, flask_env, is_locked) ==
    install_py_dependencies(pre, dev, is_locked)
        \o install_assets(flask_env)
        \o symlink

\* InstallCommands.install: line 99 hands flask_env to install_assets, whose
\* only parameter is debug; the debug parameter of install is not read
install(pre, dev, debug, flask_env, is_locked) ==
    install_py_dependencies(pre, dev, is_locked)
        \o symlink
        \o install_assets(flask_env)

----------------------------------------------------------------------------
(* Running a step list.                                                    *)

\* a keyword argument of a step, or the default of the parameter
Arg(args, key, default) == IF key \in DOMAIN args THEN args[key] ELSE default

\* Step.execute: func(**args).  outcome is what run_cmd gives the function,
\* helper what the DockerHelper constructor gives it, version_info the
\* interpreter version.  The install actions are not part
\* of this model: their result is the outcome itself.  A raised exception
\* becomes a result with status_code 1.
Execute(step, helper, outcome, version_info) ==
    LET a == step.args
        major == Arg(a, "major", 0)
        minor == Arg(a, "minor", -1)
        patch == Arg(a, "patch", -1)
        exact == Arg(a, "exact", FALSE)
        f == step.func
        r == CASE f = "check_node_version" ->
                      check_node_version(outcome, major, minor, patch, exact)
               [] f = "check_npm_version" ->
                      check_npm_version(outcome, major, minor, patch, exact)
               [] f = "check_python_version" ->
                      check_python_version(version_info, major, minor, patch,
                                           exact)
               [] f = "check_docker_version" ->
                      check_docker_version(outcome, major, minor, patch,
                                           exact)
               [] f = "check_docker_compose_version" ->
                      check_docker_compose_version(helper, outcome, major,
                                                   minor, patch, exact)
               [] f = "check_imagemagick_version" ->
                      check_imagemagick_version(outcome, major, minor, patch,
                                                exact)
               [] f = "check_git_version" ->
                      check_git_version(outcome, major, minor, patch, exact)
               [] f = "check_pipenv_installed" ->
                      check_pipenv_installed(outcome)
               [] OTHER ->
                      IF IsRaised(outcome) THEN outcome
                      ELSE IF outcome.status_code = 0
                      THEN ProcessResponse([msg |-> "done"], None, 0)
                      ELSE ProcessResponse(None, [msg |-> "command failed"],
                                           outcome.status_code)
    IN  IF IsRaised(r)
        THEN ProcessResponse(None, [msg |-> "raised", got |-> r.exception], 1)
        ELSE r

----------------------------------------------------------------------------
(* The variables of a part of the program that a specification does not    *)
(* exercise keep these values.                                             *)

NoReq == [binary |-> "", major |-> 0, minor |-> -1, patch |-> -1,
          exact |-> FALSE]
NoCall == [builder |-> "none", development |-> FALSE, rdm |-> 0,
           pre |-> FALSE, dev |-> FALSE, debug |-> "False",
           flask_env |-> "production", is_locked |-> 0]

IdleCheck == version = <<>> /\ req = NoReq /\ response = NotCalled
IdleExtract == text = <<>> /\ extracted = NotCalled
IdleTools == ran = NotCalled /\ tool_response = NotCalled
IdleSteps ==
    /\ call = NoCall /\ steps = <<>> /\ results = <<>>
    /\ status = "ready" /\ failure = None

----------------------------------------------------------------------------
(* Specification of _check_version on bounded inputs.                      *)

InitCheck ==
    /\ version \in StringsUpTo(VersionChars, MaxVerLen)
    /\ req \in [binary : {"Node"}, major : ReqMajors, minor : ReqMinors,
                patch : ReqPatches, exact : BOOLEAN]
    /\ response = NotCalled
    /\ IdleExtract /\ IdleTools /\ IdleSteps

CheckVersion ==
    /\ response = NotCalled
    /\ response' = check_version(req.binary, version, req.major, req.minor,
                                 req.patch, req.exact)
    /\ UNCHANGED <<version, req, extractVars, toolVars, stepVars>>

NextCheck == CheckVersion

SpecCheck == InitCheck /\ [][NextCheck]_vars

----------------------------------------------------------------------------
(* Specification of _version_from_string on bounded inputs.                *)

InitExtract ==
    /\ text \in StringsUpTo(TextChars, MaxTextLen)
    /\ extracted = NotCalled
    /\ IdleCheck /\ IdleTools /\ IdleSteps

VersionFromString ==
    /\ extracted = NotCalled
    /\ extracted' = version_from_string(text)
    /\ UNCHANGED <<text, checkVars, toolVars, stepVars>>

NextExtract == VersionFromString

SpecExtract == InitExtract /\ [][NextExtract]_vars

----------------------------------------------------------------------------
(* Specification of the per-tool checks: each call draws the outcome of    *)
(* its run_cmd and the required version.  A behaviour is one call.         *)

\* run_cmd: the command ran and printed something (output and error are
\* the captured stdout and stderr, both strings), or could not be spawned
RunCmdOutcomes ==
    {ProcessResponse(o, <<>>, 0) : o \in ToolOutputs}
        \cup {ProcessResponse(OutEmpty, <<"e", "r", "r">>, 1),
              Raised("FileNotFoundError")}

\* the versions the checks are asked for; 0, 1, 14, 18 and 0, 17 are among
\* the values the builders pass
ToolReqs == [major : {0, 1, 14, 18}, minor : {-1, 0, 17}, patch : {-1, 3},
             exact : BOOLEAN]

\* sys.version_info of the running interpreter
PythonVersions == {<<3, 9, 5>>, <<3, 12, 0>>, <<3, 8, 10>>, <<2, 7, 18>>}

InitTools == IdleTools /\ IdleCheck /\ IdleExtract /\ IdleSteps

\* DockerHelper("", local=False): the helper with its compose command, or
\* an exception of the constructor
DockerHelperOutcomes ==
    {Returned(<<"docker", "compose">>), Raised("DockerException")}

Ran(tool, outcome, r) == [kind |-> "Ran", tool |-> tool, outcome |-> outcome,
                          req |-> r, helper |-> None]

CheckNodeVersion ==
    \E o \in RunCmdOutcomes, r \in ToolReqs :
        /\ ran = NotCalled
        /\ ran' = Ran("Node", o, r)
        /\ tool_response' =
               check_node_version(o, r.major, r.minor, r.patch, r.exact)
        /\ UNCHANGED <<checkVars, extractVars, stepVars>>

CheckNpmVersion ==
    \E o \in RunCmdOutcomes, r \in ToolReqs :
        /\ ran = NotCalled
        /\ ran' = Ran("NPM", o, r)
        /\ tool_response' =
               check_npm_version(o, r.major, r.minor, r.patch, r.exact)
        /\ UNCHANGED <<checkVars, extractVars, stepVars>>

CheckPythonVersion ==
    \E v \in PythonVersions, r \in ToolReqs :
        /\ ran = NotCalled
        /\ ran' = Ran("Python", Returned(v), r)
        /\ tool_response' =
               check_python_version(v, r.major, r.minor, r.patch, r.exact)
        /\ UNCHANGED <<checkVars, extractVars, stepVars>>

CheckDockerVersion ==
    \E o \in RunCmdOutcomes, r \in ToolReqs :
        /\ ran = NotCalled
        /\ ran' = Ran("Docker", o, r)
        /\ tool_response' =
               check_docker_version(o, r.major, r.minor, r.patch, r.exact)
        /\ UNCHANGED <<checkVars, extractVars, stepVars>>

CheckDockerComposeVersion ==
    \E h \in DockerHelperOutcomes, o \in RunCmdOutcomes, r \in ToolReqs :
        /\ ran = NotCalled
        /\ ran' = [Ran("Docker Compose", IF IsRaised(h) THEN NotCalled ELSE o,
                       r) EXCEPT !.helper = h]
        /\ tool_response' =
               check_docker_compose_version(h, o, r.major, r.minor, r.patch,
                                            r.exact)
        /\ UNCHANGED <<checkVars, extractVars, stepVars>>

CheckImagemagickVersion ==
    \E o \in RunCmdOutcomes, r \in ToolReqs :
        /\ ran = NotCalled
        /\ ran' = Ran("ImageMagick", o, r)
        /\ tool_response' =
               check_imagemagick_version(o, r.major, r.minor, r.patch,
                                         r.exact)
        /\ UNCHANGED <<checkVars, extractVars, stepVars>>

CheckGitVersion ==
    \E o \in RunCmdOutcomes, r \in ToolReqs :
        /\ ran = NotCalled
        /\ ran' = Ran("git", o, r)
        /\ tool_response' =
               check_git_version(o, r.major, r.minor, r.patch, r.exact)
        /\ UNCHANGED <<checkVars, extractVars, stepVars>>

CheckPipenvInstalled ==
    \E o \in RunCmdOutcomes :
        /\ ran = NotCalled
        /\ ran' = Ran("Pipenv", o, NoReq)
        /\ tool_response' = check_pipenv_installed(o)
        /\ UNCHANGED <<checkVars, extractVars, stepVars>>

NextTools ==
    \/ CheckNodeVersion
    \/ CheckNpmVersion
    \/ CheckPythonVersion
    \/ CheckDockerVersion
    \/ CheckDockerComposeVersion
    \/ CheckImagemagickVersion
    \/ CheckGitVersion
    \/ CheckPipenvInstalled

SpecTools == InitTools /\ [][NextTools]_vars

----------------------------------------------------------------------------
(* Specification of the commands: a builder is called and returns a fresh  *)
(* step list, and the list is run step by step.                            *)

\* lowest and highest platform major version rdm_version() reports
MinRdm == 9
MaxRdm == 13
RdmMajors == MinRdm..MaxRdm

FlaskEnvs == {"production", "development"}
PyBools == {"True", "False"}
LockedStatus == {0, 1}

\* what run_cmd gives an executed step
StepOutcomes ==
    {ProcessResponse(OutNode, <<>>, 0), ProcessResponse(OutPipenv, <<>>, 0),
     ProcessResponse(OutDockerJson, <<>>, 0),
     ProcessResponse(OutEmpty, <<"e", "r", "r">>, 1),
     Raised("FileNotFoundError")}

InitSteps == IdleSteps /\ IdleCheck /\ IdleExtract /\ IdleTools

BuildCheck ==
    \E development \in BOOLEAN, rdm \in RdmMajors :
        /\ call' = [NoCall EXCEPT !.builder = "check",
                                  !.development = development,
                                  !.rdm = IF development THEN rdm ELSE 0]
        /\ steps' = check(development, rdm)
        /\ results' = <<>> /\ status' = "ready" /\ failure' = None
        /\ UNCHANGED <<checkVars, extractVars, toolVars>>

BuildCheckDev ==
    \E rdm \in RdmMajors :
        /\ call' = [NoCall EXCEPT !.builder = "check_dev", !.rdm = rdm]
        /\ steps' = check_dev(rdm)
        /\ results' = <<>> /\ status' = "ready" /\ failure' = None
        /\ UNCHANGED <<checkVars, extractVars, toolVars>>

BuildInstallPyDependencies ==
    \E pre \in BOOLEAN, dev \in BOOLEAN, is_locked \in LockedStatus :
        /\ call' = [NoCall EXCEPT !.builder = "install_py_dependencies",
                                  !.pre = pre, !.dev = dev,
                                  !.is_locked = is_locked]
        /\ steps' = install_py_dependencies(pre, dev, is_locked)
        /\ results' = <<>> /\ status' = "ready" /\ failure' = None
        /\ UNCHANGED <<checkVars, extractVars, toolVars>>

BuildSymlink ==
    /\ call' = [NoCall EXCEPT !.builder = "symlink"]
    /\ steps' = symlink
    /\ results' = <<>> /\ status' = "ready" /\ failure' = None
    /\ UNCHANGED <<checkVars, extractVars, toolVars>>

BuildInstallAssets ==
    \E debug \in PyBools :
        /\ call' = [NoCall EXCEPT !.builder = "install_assets",
                                  !.debug = debug]
        /\ steps' = install_assets(debug)
        /\ results' = <<>> /\ status' = "ready" /\ failure' = None
        /\ UNCHANGED <<checkVars, extractVars, toolVars>>

BuildInstall ==
    \E pre \in BOOLEAN, dev \in BOOLEAN, debug \in PyBools,
       flask_env \in FlaskEnvs, is_locked \in LockedStatus :
        /\ call' = [NoCall EXCEPT !.builder = "install", !.pre = pre,
                                  !.dev = dev, !.debug = debug,
                                  !.flask_env = flask_env,
                                  !.is_locked = is_locked]
        /\ steps' = install(pre, dev, debug, flask_env, is_locked)
        /\ results' = <<>> /\ status' = "ready" /\ failure' = None
        /\ UNCHANGED <<checkVars, extractVars, toolVars>>

\* a variant of RunStep that goes on after a failed step
RunStepContinues ==
    /\ status = "ready"
    /\ Len(results) < Len(steps)
    /\ \E h \in DockerHelperOutcomes, o \in StepOutcomes,
          v \in PythonVersions :
           /\ results' = Append(results,
                  [index |-> Len(results) + 1,
                   func |-> steps[Len(results) + 1].func,
                   status_code |->
                       Execute(steps[Len(results) + 1], h, o, v).status_code,
                   error |-> Execute(steps[Len(results) + 1], h, o, v).error])
           /\ status' = IF Len(results') = Len(steps) THEN "succeeded"
                        ELSE "ready"
           /\ failure' = None
    /\ UNCHANGED <<call, steps, checkVars, extractVars, toolVars>>

\* the record the run keeps of executing step i with result r
Executed(i, step, r) ==
    [index |-> i, func |-> step.func, status_code |-> r.status_code,
     error |-> r.error]

\* run(steps): the next step of the list is executed; a non-zero
\* status_code ends the run with that step's message, the last step's
\* success ends it successfully
RunStep ==
    /\ status = "ready"
    /\ Len(results) < Len(steps)
    /\ \E h \in DockerHelperOutcomes, o \in StepOutcomes,
          v \in PythonVersions :
           /\ results' = Append(results,
                  Executed(Len(results) + 1, steps[Len(results) + 1],
                           Execute(steps[Len(results) + 1], h, o, v)))
           /\ status' =
                  IF results'[Len(results')].status_code # 0 THEN "failed"
                  ELSE IF Len(results') = Len(steps) THEN "succeeded"
                  ELSE "ready"
           /\ failure' =
                  IF results'[Len(results')].status_code # 0
                  THEN results'[Len(results')].error
                  ELSE None
    /\ UNCHANGED <<call, steps, checkVars, extractVars, toolVars>>

NextSteps ==
    \/ BuildCheck
    \/ BuildCheckDev
    \/ BuildInstallPyDependencies
    \/ BuildSymlink
    \/ BuildInstallAssets
    \/ BuildInstall
    \/ RunStep

SpecSteps == InitSteps /\ [][NextSteps]_vars

----------------------------------------------------------------------------
(* Properties of _check_version.                                           *)

\* a non-empty string of digits: a non-negative integer as the tools print it
IsDigitString(s) == Len(s) > 0 /\ \A i \in 1..Len(s) : s[i] \in Digits

\* the version string is three dot-separated non-empty digit strings
WellFormed(ver) ==
    LET strs == Split(ver, ".")
    IN  Len(strs) = 3 /\ \A i \in 1..3 : IsDigitString(strs[i])

ParsedTriple(ver) == [i \in 1..3 |-> DecimalValue(Split(ver, ".")[i])]

\* p >= q in the lexicographic order of triples
LexGE(p, q) ==
    \/ p[1] > q[1]
    \/ p[1] = q[1] /\ p[2] > q[2]
    \/ p[1] = q[1] /\ p[2] = q[2] /\ p[3] >= q[3]

Called == response # NotCalled

\* C1: in minimum-version mode a well-formed version gets status_code 0
\* exactly when its triple is lexicographically at least (major, minor,
\* patch), an unset field (-1) being below every parsed value; otherwise it
\* gets status_code 1.
C1_MinimumIsLexicographic ==
    (Called /\ ~req.exact /\ WellFormed(version)) =>
        /\ response.kind = "ProcessResponse"
        /\ response.status_code \in {0, 1}
        /\ response.status_code = 0 <=>
               LexGE(ParsedTriple(version), <<req.major, req.minor, req.patch>>)

\* C1 witness: 1.2.1 against the minimum 1.1.2 passes: the higher minor
\* outweighs the lower patch.
C1_Witness ==
    /\ Called /\ ~req.exact
    /\ version = <<"1", ".", "2", ".", "1">>
    /\ req.major = 1 /\ req.minor = 1 /\ req.patch = 2
    /\ response.kind = "ProcessResponse" /\ response.status_code = 0

\* C2: in exact mode a well-formed version gets status_code 0 exactly when
\* the major is equal and every field that is set (not -1) is equal.
C2_ExactMatchesSetFields ==
    (Called /\ req.exact /\ WellFormed(version)) =>
        /\ response.kind = "ProcessResponse"
        /\ response.status_code \in {0, 1}
        /\ response.status_code = 0 <=>
               LET p == ParsedTriple(version)
               IN  /\ p[1] = req.major
                   /\ req.minor # -1 => p[2] = req.minor
                   /\ req.patch # -1 => p[3] = req.patch

\* C2 witness: 1.2.1 against exact (1, 2, unset) passes, the patch being a
\* wildcard.
C2_Witness ==
    /\ Called /\ req.exact
    /\ version = <<"1", ".", "2", ".", "1">>
    /\ req.major = 1 /\ req.minor = 2 /\ req.patch = -1
    /\ response.kind = "ProcessResponse" /\ response.status_code = 0

\* C3: a version string that is not three dot-separated numeric parts gets
\* status_code 1 with the "incorrect version format or not found" error,
\* and the call does not raise.
C3_MalformedIsFormatError ==
    (Called /\ ~WellFormed(version)) =>
        /\ response.kind = "ProcessResponse"
        /\ response.status_code = 1
        /\ response.error.msg = "incorrect version format or not found"

----------------------------------------------------------------------------
(* Properties of _version_from_string.                                     *)

\* the substrings of s that are three dot-separated non-empty digit groups,
\* as pairs of first and last position
Triples(s) ==
    {ij \in (1..Len(s)) \X (1..Len(s)) :
        ij[1] <= ij[2] /\ WellFormed(SubSeq(s, ij[1], ij[2]))}

\* the first of them: leftmost start, and from there the longest
FirstTriple(s) ==
    LET ij == CHOOSE a \in Triples(s) : \A b \in Triples(s) :
                  a[1] < b[1] \/ (a[1] = b[1] /\ a[2] >= b[2])
    IN  SubSeq(s, ij[1], ij[2])

\* C4: _version_from_string returns the first substring made of three
\* dot-separated non-empty digit groups, and fails when the text holds none.
C4_ExtractsFirstTriple ==
    extracted # NotCalled =>
        IF Triples(text) = {} THEN IsRaised(extracted)
        ELSE extracted = Returned(FirstTriple(text))

----------------------------------------------------------------------------
(* Properties of the per-tool checks.                                      *)

\* the tools whose check runs an external command
CommandTools ==
    {"Node", "NPM", "Docker", "Docker Compose", "ImageMagick", "git", "Pipenv"}

\* the text the version is looked for in, when the command ran
VersionText ==
    LET out == Strip(ran.outcome.output)
    IN  IF ran.tool = "Docker"
        THEN LET j == JsonLoads(out)
             IN  IF IsRaised(j) \/ "Client" \notin DOMAIN j.value
                     \/ "Version" \notin DOMAIN j.value["Client"]
                 THEN <<>>
                 ELSE j.value["Client"]["Version"]
        ELSE IF ran.tool = "Pipenv"
        THEN IF Len(Split(out, ",")) < 2 THEN <<>> ELSE Split(out, ",")[2]
        ELSE out

\* the command could not be run, or what it printed holds no version
RunFailedOrUnparseable ==
    /\ ran.outcome # NotCalled
    /\ IsRaised(ran.outcome) \/ Triples(VersionText) = {}

\* C5: when run_cmd raises or the output cannot be parsed, the check
\* returns status_code 1 with a "<Tool> not found" error; nothing escapes.
C5_FailureIsNotFound ==
    (ran # NotCalled /\ ran.tool \in CommandTools /\ RunFailedOrUnparseable)
        => /\ tool_response.kind = "ProcessResponse"
           /\ tool_response.status_code = 1
           /\ tool_response.error.msg = "not found"
           /\ tool_response.error.binary = ran.tool

----------------------------------------------------------------------------
(* Properties of running a step list.                                      *)

Last(seq) == seq[Len(seq)]

\* C6: the steps are executed in list order, none after the first step
\* with a non-zero status_code; a failed run reports that step's message,
\* and a run succeeds only when every step of the list returned 0.
C6_RunStopsAtFirstFailure ==
    /\ Len(results) <= Len(steps)
    /\ \A i \in 1..Len(results) :
           results[i].index = i /\ results[i].func = steps[i].func
    /\ \A i \in 1..(Len(results) - 1) : results[i].status_code = 0
    /\ status = "failed" <=>
           (Len(results) > 0 /\ Last(results).status_code # 0)
    /\ status = "failed" => failure = Last(results).error
    /\ status = "succeeded" =>
           /\ Len(results) = Len(steps)
           /\ \A i \in 1..Len(results) : results[i].status_code = 0

\* C6 witness: the second step of a longer list failed and the run ended.
C6_Witness ==
    /\ Len(steps) >= 3 /\ Len(results) = 2
    /\ results[1].status_code = 0 /\ results[2].status_code # 0
    /\ status = "failed"

----------------------------------------------------------------------------
(* Properties of the step-list builders.                                   *)

StepFuncs(list) == [i \in 1..Len(list) |-> list[i].func]

\* the one order every builder keeps its steps in
Rank(step) ==
    CASE step.func = "check_python_version" -> 1
      [] step.func = "check_pipenv_installed" -> 2
      [] step.func = "check_docker_version" -> 3
      [] step.func = "check_docker_compose_version" -> 4
      [] step.func = "check_node_version" -> 5
      [] step.func = "check_npm_version" -> 6
      [] step.func = "check_imagemagick_version" -> 7
      [] step.func = "check_git_version" -> 8
      [] step.func = "lock" -> 9
      [] step.func = "install_locked_dependencies" -> 10
      [] step.func = "update_instance_path" -> 11
      [] step.func = "_symlink_project_file_or_folder" ->
             (CASE step.args.target = "invenio.cfg" -> 12
                [] step.args.target = "templates" -> 13
                [] step.args.target = "app_data" -> 14)
      [] step.func = "update_statics_and_assets" -> 15

InFixedOrder(list) ==
    \A i \in 1..Len(list), j \in 1..Len(list) :
        i < j => Rank(list[i]) < Rank(list[j])

\* C7 as stated: between two calls of the same builder only the
\* development flag of check changes which steps are returned.
C7_OnlyDevelopmentChangesSteps ==
    [][(call'.builder = call.builder
            /\ call'.development = call.development)
           => StepFuncs(steps') = StepFuncs(steps)]_vars

\* C7 amended: every list is in the one fixed order, and between two calls
\* of the same builder only the development flag of check and whether
\* is_locked() reported a non-zero status_code change which steps are
\* returned.
C7_DevelopmentAndLockChangeSteps ==
    [][/\ InFixedOrder(steps')
       /\ (call'.builder = call.builder
               /\ call'.development = call.development
               /\ (call'.is_locked > 0) = (call.is_locked > 0))
              => StepFuncs(steps') = StepFuncs(steps)]_vars

\* C7 witness: install_py_dependencies found the project not locked and
\* put the lock step first.
C7_Witness ==
    /\ call.builder = "install_py_dependencies" /\ call.is_locked > 0
    /\ StepFuncs(steps) = <<"lock", "install_locked_dependencies">>

\* C8: check_dev asks for node 18 and npm 10 from platform major 12 on,
\* node 16 and npm 7 for major 11, node 14 and npm 6 below 11, and its node
\* and npm steps carry the major alone.
C8_NodeNpmTiers ==
    call.builder = "check_dev" =>
        /\ steps[1].func = "check_node_version"
        /\ steps[2].func = "check_npm_version"
        /\ DOMAIN steps[1].args = {"major"}
        /\ DOMAIN steps[2].args = {"major"}
        /\ call.rdm >= 12 =>
               steps[1].args.major = 18 /\ steps[2].args.major = 10
        /\ call.rdm = 11 =>
               steps[1].args.major = 16 /\ steps[2].args.major = 7
        /\ call.rdm < 11 =>
               steps[1].args.major = 14 /\ steps[2].args.major = 6

\* C8 witness: check_dev was called on platform major 12, the lowest of the
\* top tier.
C8_Witness ==
    /\ call.builder = "check_dev" /\ call.rdm = 12
    /\ steps[1].args.major = 18 /\ steps[2].args.major = 10

PyDependencyFuncs == {"lock", "install_locked_dependencies"}

\* C9: in the list install returns the Python-dependency steps come first,
\* then "update instance path", then the symlinks of invenio.cfg, templates
\* and app_data in this order, and the one assets step is last; so no
\* symlink step runs before the instance path was updated and the assets
\* step runs after the symlinks.
C9_InstallOrder ==
    call.builder = "install" =>
        /\ Len(steps) >= 6
        /\ \A i \in 1..(Len(steps) - 5) : steps[i].func \in PyDependencyFuncs
        /\ steps[Len(steps) - 4].func = "update_instance_path"
        /\ \A k \in 1..3 :
               /\ steps[Len(steps) - 4 + k].func =
                      "_symlink_project_file_or_folder"
               /\ steps[Len(steps) - 4 + k].args.target = SymlinkPaths[k]
        /\ Last(steps).func = "update_statics_and_assets"
        /\ \A i \in 1..Len(results) :
               /\ results[i].func = "_symlink_project_file_or_folder" =>
                      \E j \in 1..(i - 1) :
                          /\ results[j].func = "update_instance_path"
                          /\ results[j].status_code = 0
               /\ results[i].func = "update_statics_and_assets" =>
                      Cardinality({j \in 1..(i - 1) : results[j].func =
                          "_symlink_project_file_or_folder"}) = 3

\* C9 witness: an install list with the lock step was run to its end.
C9_Witness ==
    /\ call.builder = "install" /\ call.is_locked > 0
    /\ Len(steps) = 7 /\ status = "succeeded"

\* C10: the assets step of the list install returns carries the debug
\* argument install was given, whatever flask_env is.
C10_AssetsDebugIsInstallDebug ==
    call.builder = "install" => Last(steps).args.debug = call.debug

====
